---- MODULE Spec2Model ----
(***************************************************************************)
(* Model of lucid/misc/io/loading.py: load(), load_using_loader(),         *)
(* is_handle(), get_extension() and the loaders registry.                  *)
(*                                                                         *)
(* A Python str is a sequence of one-character strings.  A Python object   *)
(* is a record [type, id, attrs, name]: a str has type "str" and its text  *)
(* in name; a stream has type "stream", an identity id, the set attrs of   *)
(* attributes hasattr() finds, and the text of its .name attribute.        *)
(* The retrieval bridge (read_handle) and the libraries behind the         *)
(* decoders are outside the file: each of their calls is a choice among    *)
(* the outcomes they can produce (a value, a stream, or a raised error).   *)
(***************************************************************************)
EXTENDS Naturals, Sequences, FiniteSets

VARIABLES
  pc,             \* position of the load() call
  url_or_handle,  \* load()'s first argument
  cache,          \* load()'s cache argument
  stack,          \* active load_using_loader() frames, innermost last
  ext,            \* load()'s local ext
  loader,         \* load()'s local loader
  handle,         \* load()'s local handle (the fallback's stream)
  pending,        \* value returned / error raised by the frame that just ended
  trace,          \* calls, releases and log records so far, in order
  outcome,        \* what load() returned or raised
  ndimage,        \* _load_img()'s local ndimage
  image,          \* what _load_img() returned or raised
  other           \* the locals of a second load() call: one that ended, or one
                  \* that is suspended while this one runs

vars ==
  <<pc, url_or_handle, cache, ext, loader, handle, stack, pending, trace, outcome,
    ndimage, image, other>>

(***************************************************************************)
(* Bounds of the model.                                                    *)
(***************************************************************************)
\* streams without a .name the bridge may yield to purge retrievals of one call
MaxNameless == 1
\* longest name the extension specification SpecExt enumerates
MaxLen == 4

(***************************************************************************)
(* Python strings.                                                         *)
(***************************************************************************)
\* str.lower() on one character
LowerChar(c) ==
  CASE c = "A" -> "a"
    [] c = "B" -> "b"
    [] c = "G" -> "g"
    [] c = "N" -> "n"
    [] c = "P" -> "p"
    [] OTHER -> c

\* str.lower()
Lower(s) == [i \in 1..Len(s) |-> LowerChar(s[i])]

\* str.rfind(c), 1-based; 0 when c does not occur (Python's -1)
RFind(s, c) ==
  LET hits == {i \in 1..Len(s) : s[i] = c}
  IN  IF hits = {} THEN 0 ELSE CHOOSE i \in hits : \A j \in hits : j <= i

\* os.path.splitext(p)[1] (posixpath: sep "/", extsep "."): the text from the
\* last dot of the last path component on, unless only dots precede that dot
\* in the component; "" otherwise
SplitExt(p) ==
  LET sepIndex == RFind(p, "/")
      dotIndex == RFind(p, ".")
  IN  IF /\ dotIndex > sepIndex
         /\ \E i \in (sepIndex + 1)..(dotIndex - 1) : p[i] # "."
      THEN SubSeq(p, dotIndex, Len(p))
      ELSE <<>>

(***************************************************************************)
(* Python objects and errors.                                              *)
(***************************************************************************)
Str(s) == [type |-> "str", id |-> 0, attrs |-> {}, name |-> s]

Stream(i, attrs, n) == [type |-> "stream", id |-> i, attrs |-> attrs, name |-> n]

NoObject == [type |-> "NoneType", id |-> 0, attrs |-> {}, name |-> <<>>]

\* is_handle(url_or_handle)
is_handle(x) == "read" \in x.attrs /\ "name" \in x.attrs

\* direct base class of each exception type
Base(t) ==
  CASE t = "JSONDecodeError" -> "ValueError"
    [] t = "KeyError" -> "LookupError"
    [] t = "NotImplementedError" -> "RuntimeError"
    [] t = "KeyboardInterrupt" -> "BaseException"
    [] t = "Exception" -> "BaseException"
    [] t = "BaseException" -> "BaseException"
    [] OTHER -> "Exception"

\* isinstance(e, cls): cls is e's type or one of its bases (at most 3 levels)
IsInstance(e, cls) ==
  cls \in {e.type, Base(e.type), Base(Base(e.type)), Base(Base(Base(e.type)))}

\* an error raised by the call recorded as the at-th event of the trace
ExtError(t, at) == [type |-> t, msg |-> <<>>, at |-> at]

\* an error raised by a raise statement of loading.py
OwnError(t, msg) == [type |-> t, msg |-> msg, at |-> 0]

NoError == [type |-> "none", msg |-> <<>>, at |-> 0]

\* how a call ended: nothing yet, a returned value, or a raised error
NoResult == [kind |-> "none", value |-> "none", err |-> NoError]

Return(v) == [kind |-> "return", value |-> v, err |-> NoError]

Raise(e) == [kind |-> "raise", value |-> "none", err |-> e]

(***************************************************************************)
(* Message texts.  A text is a sequence of pieces: [lit] literal text,     *)
(* [pct] a %s conversion, [brace] a {} replacement field, [obj] the text   *)
(* of an object, [tags] the text of a list of strings.                     *)
(***************************************************************************)
Lit(t) == [lit |-> t]

Pct == [pct |-> "s"]

Obj(x) == [obj |-> x]

Tags(l) == [tags |-> l]

RECURSIVE Fill(_, _, _)
\* the template with its pieces of kind field replaced, in order, by args
Fill(template, args, field) ==
  IF Len(template) = 0 THEN <<>>
  ELSE IF field \in DOMAIN Head(template) /\ Len(args) > 0
       THEN <<Head(args)>> \o Fill(Tail(template), Tail(args), field)
       ELSE <<Head(template)>> \o Fill(Tail(template), args, field)

\* template % args, as logging applies it to a record's message
PercentFormat(template, args) == Fill(template, args, "pct")

\* template.format(*args): only {} fields are replaced
StrFormat(template, args) == Fill(template, args, "brace")

\* whether a text shows object x
Mentions(msg, x) == \E i \in DOMAIN msg : "obj" \in DOMAIN msg[i] /\ msg[i].obj = x

\* whether a text shows a list holding the string t
ListsTag(msg, t) ==
  \E i \in DOMAIN msg :
    /\ "tags" \in DOMAIN msg[i]
    /\ \E k \in DOMAIN msg[i].tags : msg[i].tags[k] = t

InferredMessage ==
  <<Lit("Using inferred loader '"), Pct, Lit("' due to passed file extension '"), Pct, Lit("'.")>>

UnknownMessage == <<Lit("Unknown extension '"), Pct, Lit("', attempting to load as image.")>>

ImageFailMessage ==
  <<Lit("Could not load resource "), Pct, Lit(" as image. Supported extensions: "), Pct>>

ImageOkMessage == <<Lit("Unknown extension '"), Pct, Lit("' successfully loaded as image.")>>

PurgeMessage ==
  <<Lit("While loading '"), Pct,
    Lit("' an error occurred. Purging cache once and trying again; if this fails we will raise an Exception!")>>

(***************************************************************************)
(* The trace: what the call did to its collaborators, in order.            *)
(***************************************************************************)
\* read_handle(url, cache=c) was entered; it yielded stream s or raised e
OpenEvent(u, c, s, e) ==
  [ev |-> "open", url |-> u, cache |-> c, raised |-> (e # NoError), stream |-> s, err |-> e]

\* decoder l was called on handle h; it returned v or raised e
DecodeEvent(l, h, v, e) ==
  [ev |-> "decode", loader |-> l, handle |-> h, raised |-> (e # NoError), value |-> v, err |-> e]

\* the bridge's scope for stream s was left: the stream is released
CloseEvent(s) == [ev |-> "close", stream |-> s]

LogEvent(level, msg) == [ev |-> "log", level |-> level, msg |-> msg]

Events(kind) == SelectSeq(trace, LAMBDA e : e.ev = kind)

(***************************************************************************)
(* The decoder registry.                                                   *)
(***************************************************************************)
\* list(loaders): the registered extensions, in the dict's order
LoaderKeys ==
  << <<".", "p", "n", "g">>, <<".", "j", "p", "g">>, <<".", "j", "p", "e", "g">>,
     <<".", "n", "p", "y">>, <<".", "n", "p", "z">>, <<".", "j", "s", "o", "n">>,
     <<".", "t", "x", "t">>, <<".", "m", "d">>, <<".", "p", "b">> >>

loaders ==
  [t \in {LoaderKeys[i] : i \in DOMAIN LoaderKeys} |->
     CASE t \in {LoaderKeys[1], LoaderKeys[2], LoaderKeys[3]} -> "_load_img"
       [] t \in {LoaderKeys[4], LoaderKeys[5]} -> "_load_npy"
       [] t = LoaderKeys[6] -> "_load_json"
       [] t \in {LoaderKeys[7], LoaderKeys[8]} -> "_load_text"
       [] t = LoaderKeys[9] -> "_load_graphdef_protobuf"]

\* loader.__name__[6:]
NameTail(l) ==
  CASE l = "_load_img" -> "img"
    [] l = "_load_npy" -> "npy"
    [] l = "_load_json" -> "json"
    [] l = "_load_text" -> "text"
    [] l = "_load_graphdef_protobuf" -> "graphdef_protobuf"

(***************************************************************************)
(* get_extension.                                                          *)
(***************************************************************************)
\* "No extension in URL: " + x: str + str concatenates, str + any other
\* object raises TypeError
NoExtensionError(x) ==
  IF x.type = "str"
  THEN OwnError("RuntimeError", <<Lit("No extension in URL: "), Obj(x)>>)
  ELSE OwnError("TypeError", <<>>)

\* get_extension(url_or_handle): the extension, or the error raised
get_extension(x) ==
  LET e == SplitExt(x.name)
  IN  IF e = <<>>
      THEN [raised |-> TRUE, ext |-> <<>>, err |-> NoExtensionError(x)]
      ELSE [raised |-> FALSE, ext |-> e, err |-> NoError]

(***************************************************************************)
(* The callers' inputs and the collaborators' outcomes.                    *)
(***************************************************************************)
Names ==
  { <<"a", ".", "p", "n", "g">>,      \* a.png
    <<"a", ".", "P", "N", "G">>,      \* a.PNG
    <<"c", ".", "n", "p", "y">>,      \* c.npy
    <<"d", ".", "j", "s", "o", "n">>, \* d.json
    <<"b", ".", "b", "i", "n">>,      \* b.bin
    <<"n", "o", "e", "x", "t">>,      \* noext
    <<"e", "n", "d", "i", "n", "g", ".">>, \* ending.
    <<".", "p", "n", "g">>,           \* .png
    <<"d", ".", "p", "b", "/", "f">>  \* d.pb/f
  }

\* a location is a str or an open handle: a stream with read and name
Locations ==
  {Str(n) : n \in Names} \cup {Stream(0, {"read", "name"}, n) : n \in Names}

\* cache arguments: None (the default, use-existing), False (bypass), 'purge'
CacheArgs == {"None", "False", "purge"}

\* values a decoder may return
Values == {"v1", "v2"}

\* error types the bridge or a decoder may raise
ExternalErrors ==
  {"DecodeError", "ValueError", "JSONDecodeError", "KeyError",
   "NotImplementedError", "KeyboardInterrupt"}

\* the streams the bridge has yielded so far
Yielded == SelectSeq(trace, LAMBDA e : e.ev = "open" /\ ~e.raised)

\* purge retrievals that yielded a stream without a .name
NamelessPurges ==
  SelectSeq(Yielded, LAMBDA e : e.cache = "purge" /\ ~is_handle(e.stream))

\* the bridge's streams all have read; a .name is not part of its interface
StreamAttrs == {{"read", "name"}, {"read"}}

\* the attribute sets a stream yielded for directive c may have
YieldAttrs(c) ==
  IF c = "purge" /\ Len(NamelessPurges) >= MaxNameless
  THEN {{"read", "name"}}
  ELSE StreamAttrs

\* the stream the bridge yields next, for location u
NewStream(attrs, u) == Stream(Len(Yielded) + 1, attrs, u.name)

\* a stream taken from the bridge outside a with block: nothing releases it
WithExitLeak(tr, s) == tr

\* leaving the scope of a with read_handle(...) block releases its stream
WithExit(tr, s) == Append(tr, CloseEvent(s))

Frame(u) == [url |-> u, pos |-> "entry", handle |-> NoObject, err |-> NoError]

Top == stack[Len(stack)]

Pop == SubSeq(stack, 1, Len(stack) - 1)

SetTop(f) == [stack EXCEPT ![Len(stack)] = f]

(***************************************************************************)
(* Arrays: a numpy array is a record [shape, data], data a function from   *)
(* the index tuples of the shape (0-based) to the elements.                *)
(***************************************************************************)
RECURSIVE Indices(_)
Indices(shape) ==
  IF shape = <<>>
  THEN {<<>>}
  ELSE {<<i>> \o t : i \in 0..(Head(shape) - 1), t \in Indices(Tail(shape))}

Array(shape, data) == [shape |-> shape, data |-> data]

\* the array of shape (0,): no element
NoArray == Array(<<0>>, [t \in Indices(<<0>>) |-> 0])

\* what _load_img has returned or raised: nothing yet
NoImage == [kind |-> "none", value |-> NoArray, err |-> NoError]

\* the locals of a load() call, as one record
Call(p, u, c, e, l, h, s, pd, tr, o) ==
  [pc |-> p, url_or_handle |-> u, cache |-> c, ext |-> e, loader |-> l, handle |-> h,
   stack |-> s, pending |-> pd, trace |-> tr, outcome |-> o]

\* no second call
NoCall == Call("none", NoObject, "None", <<>>, "none", NoObject, <<>>, NoResult, <<>>, NoResult)

(***************************************************************************)
(* load, lines 120-152.                                                    *)
(***************************************************************************)
Init ==
  /\ pc = "idle"
  /\ url_or_handle = NoObject
  /\ cache = "None"
  /\ ext = <<>>
  /\ loader = "none"
  /\ handle = NoObject
  /\ stack = <<>>
  /\ pending = NoResult
  /\ trace = <<>>
  /\ outcome = NoResult
  /\ ndimage = NoArray
  /\ image = NoImage
  /\ other = NoCall

\* a caller calls load(u, cache=c)
Load(u, c) ==
  /\ pc = "idle"
  /\ url_or_handle' = u
  /\ cache' = c
  /\ pc' = "get_extension"
  /\ UNCHANGED <<ext, loader, handle, stack, pending, trace, outcome>>
  /\ UNCHANGED <<ndimage, image, other>>

\* line 133: ext = get_extension(url_or_handle)
GetExtension ==
  /\ pc = "get_extension"
  /\ LET r == get_extension(url_or_handle)
     IN  IF r.raised
         THEN /\ outcome' = Raise(r.err)
              /\ pc' = "done"
              /\ ext' = ext
         ELSE /\ ext' = r.ext
              /\ pc' = "lookup"
              /\ outcome' = outcome
  /\ UNCHANGED <<url_or_handle, cache, loader, handle, stack, pending, trace>>
  /\ UNCHANGED <<ndimage, image, other>>

\* the key load looks up in loaders
LookupKey(e) == Lower(e)

\* lines 134-138 and 140-142: look the loader up and call load_using_loader,
\* or enter the KeyError handler
Lookup ==
  /\ pc = "lookup"
  /\ IF LookupKey(ext) \in DOMAIN loaders
     THEN /\ loader' = loaders[LookupKey(ext)]
          /\ trace' = Append(trace, LogEvent("debug",
                 PercentFormat(InferredMessage,
                   <<Lit(NameTail(loaders[LookupKey(ext)])), Obj(Str(ext))>>)))
          /\ stack' = <<Frame(url_or_handle)>>
          /\ pc' = "try"
     ELSE /\ trace' = Append(trace, LogEvent("warning",
                 PercentFormat(UnknownMessage, <<Obj(Str(ext))>>)))
          /\ pc' = "fallback"
          /\ UNCHANGED <<loader, stack>>
  /\ UNCHANGED <<url_or_handle, cache, ext, handle, pending, outcome>>
  /\ UNCHANGED <<ndimage, image, other>>

\* whether the try block's except KeyError clause catches e
CaughtByLoad(e) == IsInstance(e, "KeyError")

\* lines 138, 140-142: load_using_loader returned or raised inside the try block
TryExit ==
  /\ pc = "try"
  /\ stack = <<>>
  /\ pending.kind # "none"
  /\ IF pending.kind = "raise" /\ CaughtByLoad(pending.err)
     THEN /\ trace' = Append(trace, LogEvent("warning",
                 PercentFormat(UnknownMessage, <<Obj(Str(ext))>>)))
          /\ pc' = "fallback"
          /\ outcome' = outcome
     ELSE /\ outcome' = pending
          /\ pc' = "done"
          /\ trace' = trace
  /\ pending' = NoResult
  /\ UNCHANGED <<url_or_handle, cache, ext, loader, handle, stack>>
  /\ UNCHANGED <<ndimage, image, other>>

\* whether the fallback's except Exception clause catches e
CaughtByFallback(e) == IsInstance(e, "Exception")

\* lines 147-149: the error the fallback's handler raises
ImageFailError ==
  OwnError("RuntimeError",
           StrFormat(ImageFailMessage, <<Obj(url_or_handle), Tags(LoaderKeys)>>))

\* lines 146-149: the fallback's try block raised e
FallbackFailed(tr, e) ==
  IF CaughtByFallback(e)
  THEN /\ trace' = Append(tr, LogEvent("error",
              PercentFormat(ImageFailMessage, <<Obj(url_or_handle), Tags(LoaderKeys)>>)))
       /\ outcome' = Raise(ImageFailError)
  ELSE /\ trace' = tr
       /\ outcome' = Raise(e)

\* the location the fallback hands to read_handle
FallbackLocation == url_or_handle

\* a fallback that always purges before it fetches
FallbackCachePurge == "purge"

\* the directive of the fallback's retrieval
FallbackCache == cache

\* line 144: with read_handle(url_or_handle, cache=cache) as handle
FallbackOpen ==
  /\ pc = "fallback"
  /\ \/ \E a \in YieldAttrs(FallbackCache) :
          LET s == NewStream(a, FallbackLocation)
          IN  /\ trace' = Append(trace, OpenEvent(FallbackLocation, FallbackCache, s, NoError))
              /\ handle' = s
              /\ pc' = "fallback_decode"
              /\ outcome' = outcome
     \/ \E t \in ExternalErrors :
          LET e == ExtError(t, Len(trace) + 1)
          IN  /\ FallbackFailed(Append(trace, OpenEvent(FallbackLocation, FallbackCache, NoObject, e)), e)
              /\ pc' = "done"
              /\ handle' = handle
  /\ UNCHANGED <<url_or_handle, cache, ext, loader, stack, pending>>
  /\ UNCHANGED <<ndimage, image, other>>

\* lines 145-152: result = _load_img(handle), then the with block is left
FallbackDecode ==
  /\ pc = "fallback_decode"
  /\ \/ \E v \in Values :
          /\ trace' = Append(WithExit(Append(trace, DecodeEvent("_load_img", handle, v, NoError)), handle),
                             LogEvent("info", PercentFormat(ImageOkMessage, <<Obj(Str(ext))>>)))
          /\ outcome' = Return(v)
     \/ \E t \in ExternalErrors :
          LET e == ExtError(t, Len(trace) + 1)
          IN  FallbackFailed(WithExit(Append(trace, DecodeEvent("_load_img", handle, "none", e)), handle), e)
  /\ pc' = "done"
  /\ UNCHANGED <<url_or_handle, cache, ext, loader, handle, stack, pending>>
  /\ UNCHANGED <<ndimage, image, other>>

(***************************************************************************)
(* load_using_loader, lines 157-171.  Its loader and cache parameters are  *)
(* load's in every frame; url_or_handle is the frame's url.                *)
(***************************************************************************)
\* the frame ends: its caller receives r
EndFrame(r) ==
  /\ pending' = r
  /\ stack' = Pop

\* lines 158-159: is_handle(url_or_handle): result = loader(url_or_handle)
CallLoader ==
  /\ pc = "try"
  /\ stack # <<>>
  /\ Top.pos = "entry"
  /\ is_handle(Top.url)
  /\ \/ \E v \in Values :
          /\ trace' = Append(trace, DecodeEvent(loader, Top.url, v, NoError))
          /\ EndFrame(Return(v))
     \/ \E t \in ExternalErrors :
          LET e == ExtError(t, Len(trace) + 1)
          IN  /\ trace' = Append(trace, DecodeEvent(loader, Top.url, "none", e))
              /\ EndFrame(Raise(e))
  /\ UNCHANGED <<pc, url_or_handle, cache, ext, loader, handle, outcome>>
  /\ UNCHANGED <<ndimage, image, other>>

\* a first retrieval that ignores the caller's cache argument
FirstCacheUseExisting == "None"

\* the directive of a frame's first retrieval
FirstCache == cache

\* line 163: with read_handle(url, cache=cache) as handle
OpenFirst ==
  /\ pc = "try"
  /\ stack # <<>>
  /\ Top.pos = "entry"
  /\ ~is_handle(Top.url)
  /\ \/ \E a \in YieldAttrs(FirstCache) :
          LET s == NewStream(a, Top.url)
          IN  /\ trace' = Append(trace, OpenEvent(Top.url, FirstCache, s, NoError))
              /\ stack' = SetTop([Top EXCEPT !.pos = "decode", !.handle = s])
     \/ \E t \in ExternalErrors :
          LET e == ExtError(t, Len(trace) + 1)
          IN  /\ trace' = Append(trace, OpenEvent(Top.url, FirstCache, NoObject, e))
              /\ stack' = SetTop([Top EXCEPT !.pos = "except", !.err = e])
  /\ UNCHANGED <<pc, url_or_handle, cache, ext, loader, handle, pending, outcome>>
  /\ UNCHANGED <<ndimage, image, other>>

\* line 164: result = loader(handle), then the with block is left
DecodeFirst ==
  /\ pc = "try"
  /\ stack # <<>>
  /\ Top.pos = "decode"
  /\ \/ \E v \in Values :
          /\ trace' = WithExit(Append(trace, DecodeEvent(loader, Top.handle, v, NoError)), Top.handle)
          /\ EndFrame(Return(v))
     \/ \E t \in ExternalErrors :
          LET e == ExtError(t, Len(trace) + 1)
          IN  /\ trace' = WithExit(Append(trace, DecodeEvent(loader, Top.handle, "none", e)), Top.handle)
              /\ stack' = SetTop([Top EXCEPT !.pos = "except", !.handle = NoObject, !.err = e])
              /\ pending' = pending
  /\ UNCHANGED <<pc, url_or_handle, cache, ext, loader, handle, outcome>>
  /\ UNCHANGED <<ndimage, image, other>>

\* an except clause that matches the two named types only, not their subclasses
RetryableExactType(e) == e.type \in {"DecodeError", "ValueError"}

\* line 165: whether except (DecodeError, ValueError) catches e
Retryable(e) == IsInstance(e, "DecodeError") \/ IsInstance(e, "ValueError")

\* a handler that goes on to purge without logging its warning
ExceptSilent ==
  /\ pc = "try"
  /\ stack # <<>>
  /\ Top.pos = "except"
  /\ IF Retryable(Top.err)
     THEN /\ stack' = SetTop([Top EXCEPT !.pos = "purge", !.err = NoError])
          /\ pending' = pending
     ELSE EndFrame(Raise(Top.err))
  /\ UNCHANGED <<pc, url_or_handle, cache, ext, loader, handle, trace, outcome>>
  /\ UNCHANGED <<ndimage, image, other>>

\* lines 165-166: the try block raised: log and go on to purge, or propagate
Except ==
  /\ pc = "try"
  /\ stack # <<>>
  /\ Top.pos = "except"
  /\ IF Retryable(Top.err)
     THEN /\ trace' = Append(trace, LogEvent("warning",
                 PercentFormat(PurgeMessage, <<Obj(Top.url)>>)))
          /\ stack' = SetTop([Top EXCEPT !.pos = "purge", !.err = NoError])
          /\ pending' = pending
     ELSE /\ EndFrame(Raise(Top.err))
          /\ trace' = trace
  /\ UNCHANGED <<pc, url_or_handle, cache, ext, loader, handle, outcome>>
  /\ UNCHANGED <<ndimage, image, other>>

\* what the handler passes to the recursive call for purge stream s of frame f
RetryArgument(f, s) == s

\* a handler that retries with the caller's cache argument
RetryCacheCallers == cache

\* the directive of the handler's retrieval
RetryCache == "purge"

\* lines 169-170: with read_handle(url, cache='purge') as handle:
\*                    result = load_using_loader(handle, loader, cache)
OpenPurge ==
  /\ pc = "try"
  /\ stack # <<>>
  /\ Top.pos = "purge"
  /\ \/ \E a \in YieldAttrs(RetryCache) :
          LET s == NewStream(a, Top.url)
          IN  /\ trace' = Append(trace, OpenEvent(Top.url, RetryCache, s, NoError))
              /\ stack' = Append(SetTop([Top EXCEPT !.pos = "retry", !.handle = s]),
                                 Frame(RetryArgument(Top, s)))
              /\ pending' = pending
     \/ \E t \in ExternalErrors :
          LET e == ExtError(t, Len(trace) + 1)
          IN  /\ trace' = Append(trace, OpenEvent(Top.url, RetryCache, NoObject, e))
              /\ EndFrame(Raise(e))
  /\ UNCHANGED <<pc, url_or_handle, cache, ext, loader, handle, outcome>>
  /\ UNCHANGED <<ndimage, image, other>>

\* lines 169-171: the recursive call ended: the with block is left, and the
\* frame returns the result or lets the error through
RetryExit ==
  /\ pc = "try"
  /\ stack # <<>>
  /\ Top.pos = "retry"
  /\ pending.kind # "none"
  /\ trace' = WithExit(trace, Top.handle)
  /\ EndFrame(pending)
  /\ UNCHANGED <<pc, url_or_handle, cache, ext, loader, handle, outcome>>
  /\ UNCHANGED <<ndimage, image, other>>

Next ==
  \/ \E u \in Locations, c \in CacheArgs : Load(u, c)
  \/ GetExtension
  \/ Lookup
  \/ CallLoader
  \/ OpenFirst
  \/ DecodeFirst
  \/ Except
  \/ OpenPurge
  \/ RetryExit
  \/ TryExit
  \/ FallbackOpen
  \/ FallbackDecode

Spec == Init /\ [][Next]_vars

(***************************************************************************)
(* The extension specification: load's first steps (get_extension and the  *)
(* registry lookup) on every name of at most MaxLen characters.            *)
(***************************************************************************)
ExtAlphabet == {"p", "b", "B", ".", "/"}

ExtNames == UNION {[1..n -> ExtAlphabet] : n \in 0..MaxLen}

ExtLocations ==
  {Str(n) : n \in ExtNames} \cup {Stream(0, {"read", "name"}, n) : n \in ExtNames}

NextExt ==
  \/ \E u \in ExtLocations : Load(u, "None")
  \/ GetExtension
  \/ Lookup

SpecExt == Init /\ [][NextExt]_vars

(***************************************************************************)
(* _load_img, lines 69-78: the rank branch on the decoded array.  The      *)
(* image specification runs it on every array of rank at most MaxRank      *)
(* with extents up to MaxDim and at most MaxCells elements.                *)
(***************************************************************************)
MaxRank == 4

MaxDim == 2

MaxCells == 4

\* the elements of ndimage: pixel 0 and the maximum pixel, divided by the maximum
Pixels == {0, 1}

RECURSIVE Size(_)
\* the number of elements of an array of this shape
Size(shape) == IF shape = <<>> THEN 1 ELSE Head(shape) * Size(Tail(shape))

Shapes == UNION {{sh \in [1..r -> 1..MaxDim] : Size(sh) <= MaxCells} : r \in 0..MaxRank}

ImageArrays == UNION {{Array(sh, d) : d \in [Indices(sh) -> Pixels]} : sh \in Shapes}

\* t without its k-th element
Drop(t, k) == SubSeq(t, 1, k - 1) \o SubSeq(t, k + 1, Len(t))

\* np.expand_dims(a, axis=axis): a new axis of extent 1 at position axis
expand_dims(a, axis) ==
  LET shape == SubSeq(a.shape, 1, axis) \o <<1>> \o SubSeq(a.shape, axis + 1, Len(a.shape))
  IN  Array(shape, [t \in Indices(shape) |-> a.data[Drop(t, axis + 1)]])

\* np.repeat(a, repeats, axis=axis): each element repeated along the axis
repeat(a, repeats, axis) ==
  LET shape == [a.shape EXCEPT ![axis + 1] = a.shape[axis + 1] * repeats]
  IN  Array(shape,
            [t \in Indices(shape) |-> a.data[[t EXCEPT ![axis + 1] = t[axis + 1] \div repeats]]])

\* line 75: the axis added and repeated along
ChannelAxis == 2

\* line 75: the number of repeats
Channels == 3

Brace == [brace |-> ""]

Num(n) == [num |-> n]

\* line 77: the text of the error for rank
RankMessage(rank) ==
  StrFormat(<<Lit("Loaded image has more dimensions than expected: "), Brace>>, <<Num(rank)>>)

ReturnImage(a) == [kind |-> "return", value |-> a, err |-> NoError]

RaiseImage(e) == [kind |-> "raise", value |-> NoArray, err |-> e]

\* a rank branch that returns a rank-2 array as it is
RankBranchUnpromoted(nd) ==
  IF Len(nd.shape) \in {2, 3}
  THEN ReturnImage(nd)
  ELSE RaiseImage(OwnError("NotImplementedError", RankMessage(Len(nd.shape))))

\* lines 71-78: what _load_img returns or raises for ndimage nd
RankBranch(nd) ==
  LET rank == Len(nd.shape)
  IN  IF rank = 3
      THEN ReturnImage(nd)
      ELSE IF rank = 2
           THEN ReturnImage(repeat(expand_dims(nd, ChannelAxis), Channels, ChannelAxis))
           ELSE RaiseImage(OwnError("NotImplementedError", RankMessage(rank)))

\* line 69: ndimage = np.divide(image_array, image_max_value, dtype=target_dtype)
Divide(a) ==
  /\ pc = "idle"
  /\ ndimage' = a
  /\ pc' = "rank"
  /\ UNCHANGED <<url_or_handle, cache, ext, loader, handle, stack, pending, trace, outcome>>
  /\ UNCHANGED <<image, other>>

\* lines 71-78: rank = len(ndimage.shape) and the branch on it
Rank ==
  /\ pc = "rank"
  /\ image' = RankBranch(ndimage)
  /\ pc' = "done"
  /\ UNCHANGED <<url_or_handle, cache, ext, loader, handle, stack, pending, trace, outcome>>
  /\ UNCHANGED <<ndimage, other>>

NextImg ==
  \/ \E a \in ImageArrays : Divide(a)
  \/ Rank

SpecImg == Init /\ [][NextImg]_vars

(***************************************************************************)
(* Two calls in sequence: a caller that has loaded a string location       *)
(* loads it again, with the same arguments.                                *)
(***************************************************************************)
\* the locations loaded twice: the string locations that have an extension
TwiceLocations == {u \in Locations : u.type = "str" /\ SplitExt(u.name) # <<>>}

\* line 120: load(url_or_handle) is called again after it returned from its
\* first attempt
LoadAgain ==
  /\ pc = "done"
  /\ outcome.kind = "return"
  /\ Len(Events("open")) = 1
  /\ other = NoCall
  /\ other' = Call(pc, url_or_handle, cache, ext, loader, handle, stack, pending, trace, outcome)
  /\ pc' = "get_extension"
  /\ ext' = <<>>
  /\ loader' = "none"
  /\ handle' = NoObject
  /\ stack' = <<>>
  /\ pending' = NoResult
  /\ trace' = <<>>
  /\ outcome' = NoResult
  /\ UNCHANGED <<url_or_handle, cache, ndimage, image>>

NextTwice ==
  \/ \E u \in TwiceLocations : Load(u, "None")
  \/ GetExtension
  \/ Lookup
  \/ CallLoader
  \/ OpenFirst
  \/ DecodeFirst
  \/ Except
  \/ OpenPurge
  \/ RetryExit
  \/ TryExit
  \/ FallbackOpen
  \/ FallbackDecode
  \/ LoadAgain

SpecTwice == Init /\ [][NextTwice]_vars

(***************************************************************************)
(* Two calls at once: two threads each run one load() call, on different   *)
(* string locations, and the scheduler interleaves their steps.  The       *)
(* variables hold the locals of the call that runs, other those of the     *)
(* call that waits.  The collaborators are kept small here: a decoder      *)
(* returns one value, and the one error raised is a ValueError.            *)
(***************************************************************************)
\* one registered and one unregistered location
ConcLocations == {Str(<<"c", ".", "n", "p", "y">>), Str(<<"b", ".", "b", "i", "n">>)}

\* line 120: a second thread calls load(u) while the first call is under way
LoadOther(u) ==
  /\ pc # "idle"
  /\ other = NoCall
  /\ u # url_or_handle
  /\ other' = Call(pc, url_or_handle, cache, ext, loader, handle, stack, pending, trace, outcome)
  /\ pc' = "get_extension"
  /\ url_or_handle' = u
  /\ cache' = "None"
  /\ ext' = <<>>
  /\ loader' = "none"
  /\ handle' = NoObject
  /\ stack' = <<>>
  /\ pending' = NoResult
  /\ trace' = <<>>
  /\ outcome' = NoResult
  /\ UNCHANGED <<ndimage, image>>

\* the scheduler runs the other thread: the two calls' locals change places
Switch ==
  /\ other # NoCall
  /\ other' = Call(pc, url_or_handle, cache, ext, loader, handle, stack, pending, trace, outcome)
  /\ pc' = other.pc
  /\ url_or_handle' = other.url_or_handle
  /\ cache' = other.cache
  /\ ext' = other.ext
  /\ loader' = other.loader
  /\ handle' = other.handle
  /\ stack' = other.stack
  /\ pending' = other.pending
  /\ trace' = other.trace
  /\ outcome' = other.outcome
  /\ UNCHANGED <<ndimage, image>>

\* the collaborators of the two-thread specification
SmallWorld(tr) ==
  \A i \in DOMAIN tr :
    tr[i].ev \in {"open", "decode"}
    => /\ tr[i].err.type \in {"none", "ValueError"}
       /\ tr[i].ev = "decode" => tr[i].value \in {"none", "v1"}

NextConc ==
  \/ \E u \in ConcLocations : Load(u, "None") /\ SmallWorld(trace')
  \/ GetExtension /\ SmallWorld(trace')
  \/ Lookup /\ SmallWorld(trace')
  \/ CallLoader /\ SmallWorld(trace')
  \/ OpenFirst /\ SmallWorld(trace')
  \/ DecodeFirst /\ SmallWorld(trace')
  \/ Except /\ SmallWorld(trace')
  \/ OpenPurge /\ SmallWorld(trace')
  \/ RetryExit /\ SmallWorld(trace')
  \/ TryExit /\ SmallWorld(trace')
  \/ FallbackOpen /\ SmallWorld(trace')
  \/ FallbackDecode /\ SmallWorld(trace')
  \/ \E u \in ConcLocations : LoadOther(u)
  \/ Switch

SpecConc == Init /\ [][NextConc]_vars

(***************************************************************************)
(* Vocabulary of the properties.                                           *)
(***************************************************************************)
Opens == Events("open")

Decodes == Events("decode")

Closes == Events("close")

\* the directive a caller gets by passing no cache argument
UseExisting == "None"

\* the location's extension is a registered tag, letter case aside
Registered(x) == Lower(SplitExt(x.name)) \in DOMAIN loaders

IsString(x) == x.type = "str"

Done == pc = "done"

(***************************************************************************)
(* Properties.                                                             *)
(***************************************************************************)
\* C1 (retry bound): for a string location with a registered tag, loaded with
\* the default directive, if every decoder call raises a DecodeError or a
\* ValueError, the call makes at most 2 retrievals, the first with
\* use-existing and the second with 'purge', and, the bridge having yielded a
\* stream each time, it ends after exactly 2 retrievals by raising the second
\* decoder call's error.
C1_RetryBound ==
  (/\ IsString(url_or_handle)
   /\ Registered(url_or_handle)
   /\ cache = UseExisting
   /\ \A i \in DOMAIN Decodes : Decodes[i].raised /\ Retryable(Decodes[i].err))
  => /\ Len(Opens) <= 2
     /\ Len(Opens) >= 1 => Opens[1].cache = UseExisting
     /\ Len(Opens) >= 2 => Opens[2].cache = "purge"
     /\ (Done /\ \A i \in DOMAIN Opens : ~Opens[i].raised)
          => /\ Len(Opens) = 2
             /\ Len(Decodes) = 2
             /\ outcome = Raise(Decodes[2].err)

\* C2 (no false retry): for a string location with a registered tag, if the
\* decoder raises an error that except (DecodeError, ValueError) does not
\* catch, the call makes exactly 1 retrieval, issues no purge, and raises
\* that error.
C2_NoFalseRetry ==
  (/\ IsString(url_or_handle)
   /\ Registered(url_or_handle)
   /\ Len(Opens) >= 1
   /\ ~Opens[1].raised
   /\ Len(Decodes) >= 1
   /\ Decodes[1].raised
   /\ ~Retryable(Decodes[1].err))
  => /\ Len(Opens) = 1
     /\ \A i \in DOMAIN Opens : Opens[i].cache # "purge" \/ cache = "purge"
     /\ Len(Decodes) = 1
     /\ Done => outcome = Raise(Decodes[1].err)

\* C3 (dispatch): for a location, string or handle, whose extension is a
\* registered tag letter case aside, every decoder load calls is the one
\* registered for the lower-cased extension, whatever it returns or raises.
C3_RegisteredDecoderOnly ==
  Registered(url_or_handle)
  => \A i \in DOMAIN Decodes :
       Decodes[i].loader = loaders[Lower(SplitExt(url_or_handle.name))]

\* the call took the fallback because the extension is not registered
UnregisteredFallback ==
  /\ url_or_handle # NoObject
  /\ SplitExt(url_or_handle.name) # <<>>
  /\ ~Registered(url_or_handle)

\* the error the fallback's retrieval or image decode raised, if any
FallbackErrors ==
  {trace[i].err : i \in {j \in DOMAIN trace : trace[j].ev \in {"open", "decode"} /\ trace[j].raised}}

\* C4 (unsupported resource): for a location with an unregistered tag, load
\* calls no decoder but the image decoder, and when the fallback raises an
\* error (an Exception) load raises a RuntimeError whose text names the
\* location and lists every registered tag.
C4_UnsupportedResourceError ==
  UnregisteredFallback
  => /\ \A i \in DOMAIN Decodes : Decodes[i].loader = "_load_img"
     /\ (Done /\ \E e \in FallbackErrors : IsInstance(e, "Exception"))
          => /\ outcome.kind = "raise"
             /\ outcome.err.type = "RuntimeError"
             /\ Mentions(outcome.err.msg, url_or_handle)
             /\ \A k \in DOMAIN LoaderKeys : ListsTag(outcome.err.msg, LoaderKeys[k])

\* C5 (no extension): for a location, string or handle, whose name has no
\* extension, load raises the RuntimeError "No extension in URL" and calls
\* neither the bridge nor a decoder.
C5_NoExtensionError ==
  (/\ pc \notin {"idle", "get_extension"}
   /\ SplitExt(url_or_handle.name) = <<>>)
  => /\ Done
     /\ outcome.kind = "raise"
     /\ outcome.err.type = "RuntimeError"
     /\ Len(outcome.err.msg) >= 1
     /\ outcome.err.msg[1] = Lit("No extension in URL: ")
     /\ Len(Opens) = 0
     /\ Len(Decodes) = 0

\* C6 (handles bypass the bridge): when the location is a caller's handle, no
\* retrieval is issued for it, on the registered path and on the fallback path
\* alike, and every decoder call is on that handle.
C6_HandleNeverRetrieved ==
  is_handle(url_or_handle)
  => /\ \A i \in DOMAIN Opens : Opens[i].url # url_or_handle
     /\ \A i \in DOMAIN Decodes : Decodes[i].handle = url_or_handle

\* the i-th event is the retrieval of an except (DecodeError, ValueError)
\* handler: the handler's warning is the event before it
IsRetry(i) ==
  /\ i > 1
  /\ trace[i].ev = "open"
  /\ trace[i - 1].ev = "log"
  /\ trace[i - 1].msg[1] = PurgeMessage[1]

\* the retrievals that are not a handler's: the first of each
\* load_using_loader frame, and the fallback's
FirstAttempts == {i \in DOMAIN trace : trace[i].ev = "open" /\ ~IsRetry(i)}

Retries == {i \in DOMAIN trace : IsRetry(i)}

\* C7 as stated (directives): whatever cache argument the caller passes, every
\* first-attempt retrieval is issued with use-existing, and 'purge' is issued
\* only on the retry.
C7_FirstAttemptUseExisting ==
  /\ \A i \in FirstAttempts : trace[i].cache = UseExisting
  /\ \A i \in Retries : trace[i].cache = "purge"

\* C7 (directives): every first-attempt retrieval, on the registered path and
\* on the fallback path, is issued with the cache argument the caller passed
\* (use-existing when none is passed), and every retry is issued with 'purge'.
C7_FirstAttemptCallersCache ==
  /\ \A i \in FirstAttempts : trace[i].cache = cache
  /\ \A i \in Retries : trace[i].cache = "purge"

\* a call with a cache argument other than the default made a first attempt
\* and a retry
C7_Witness ==
  /\ Done
  /\ cache = "False"
  /\ FirstAttempts # {}
  /\ Retries # {}

\* the first attempt decoded its stream and raised a ValueError, and the
\* decoder then returned a value for the stream the second retrieval yielded
Recovered ==
  /\ IsString(url_or_handle)
  /\ Registered(url_or_handle)
  /\ Len(Opens) >= 2
  /\ Len(Decodes) >= 2
  /\ ~Opens[1].raised
  /\ Decodes[1].handle = Opens[1].stream
  /\ Decodes[1].raised
  /\ IsInstance(Decodes[1].err, "ValueError")
  /\ ~Opens[2].raised
  /\ Decodes[2].handle = Opens[2].stream
  /\ ~Decodes[2].raised

\* C8 (recovery): for a string location with a registered tag, if the first
\* decode raises a ValueError and the decode of the post-purge stream succeeds,
\* the bridge is invoked exactly twice, the second time with 'purge', and load
\* returns the value of the second decode.
C8_Recovery ==
  Recovered
  => /\ Len(Opens) = 2
     /\ Opens[2].cache = "purge"
     /\ Len(Decodes) = 2
     /\ Done => outcome = Return(Decodes[2].value)

C8_Witness == Done /\ Recovered /\ outcome.kind = "return"

\* C10 (scoped streams): when load has returned or raised, every stream the
\* bridge yielded to it has been released; only streams the bridge yielded
\* are ever released, so a caller's handle never is.
C10_StreamsReleased ==
  /\ Done => \A i \in DOMAIN Opens :
               ~Opens[i].raised => \E k \in DOMAIN Closes : Closes[k].stream = Opens[i].stream
  /\ \A k \in DOMAIN Closes :
       /\ Closes[k].stream # url_or_handle
       /\ \E i \in DOMAIN Opens : ~Opens[i].raised /\ Opens[i].stream = Closes[k].stream

\* a call raised after its retry failed: two streams were acquired
C10_Witness ==
  /\ Done
  /\ outcome.kind = "raise"
  /\ Len(Yielded) >= 2
  /\ \E i \in DOMAIN Decodes : Decodes[i].raised

\* the text after the final "." of a name (the whole name when it has none)
AfterLastDot(n) == SubSeq(n, RFind(n, ".") + 1, Len(n))

\* the last path component of a name
LastComponent(n) == SubSeq(n, RFind(n, "/") + 1, Len(n))

\* a name without a tag: its last path component has no "." after its
\* leading dots (no "." at all, or only in a directory, or only at the start
\* of the component), or nothing follows the final "."
NoTag(n) ==
  LET c == LastComponent(n)
  IN  \/ \A i \in DOMAIN c : c[i] = "." => \A j \in 1..i : c[j] = "."
      \/ AfterLastDot(n) = <<>>

\* C9 (format tag): for every string location, load raises the RuntimeError
\* "No extension in URL" exactly when the name has no tag; otherwise the key
\* it looks up in the registry is "." followed by the lower-cased text after
\* the final "." of the name.
C9_TagOrNoExtension ==
  (IsString(url_or_handle) /\ pc \notin {"idle", "get_extension"})
  => IF NoTag(url_or_handle.name)
     THEN /\ Done
          /\ outcome.kind = "raise"
          /\ outcome.err.type = "RuntimeError"
          /\ outcome.err.msg[1] = Lit("No extension in URL: ")
     ELSE /\ ext # <<>>
          /\ LookupKey(ext) = <<".">> \o Lower(AfterLastDot(url_or_handle.name))

\* the first attempt of a string location with a registered tag decoded its
\* stream and the decoder raised
FirstDecodeRaised ==
  /\ IsString(url_or_handle)
  /\ Registered(url_or_handle)
  /\ Len(Opens) >= 1
  /\ ~Opens[1].raised
  /\ Len(Decodes) >= 1
  /\ Decodes[1].handle = Opens[1].stream
  /\ Decodes[1].raised

\* the JSON decoder raised json.JSONDecodeError on the first attempt
MalformedJson ==
  /\ FirstDecodeRaised
  /\ Decodes[1].loader = "_load_json"
  /\ Decodes[1].err.type = "JSONDecodeError"

\* the image decoder raised NotImplementedError (line 78) on the first attempt
UnsupportedRank ==
  /\ FirstDecodeRaised
  /\ Decodes[1].loader = "_load_img"
  /\ Decodes[1].err.type = "NotImplementedError"

\* the call made one retrieval, and ends by raising the first decode's error
PropagatesAtOnce ==
  /\ Len(Opens) = 1
  /\ Len(Decodes) = 1
  /\ Done => outcome = Raise(Decodes[1].err)

\* C13 as stated (non-corruption decode errors): a malformed-JSON failure of
\* the JSON decoder and an unsupported-rank failure of the image decoder each
\* propagate at once for a string location: one retrieval, no purge-and-retry.
C13_JsonAndRankPropagate ==
  (MalformedJson \/ UnsupportedRank) => PropagatesAtOnce

\* C13 (non-corruption decode errors): an unsupported-rank failure of the image
\* decoder propagates at once for a string location, with exactly one
\* retrieval; a malformed-JSON failure is a ValueError, so the handler logs its
\* warning and the next retrieval is the retry with 'purge'.
C13_RankPropagatesJsonRetried ==
  /\ UnsupportedRank => PropagatesAtOnce
  /\ MalformedJson =>
       /\ Len(Opens) >= 2 => Opens[2].cache = "purge"
       /\ Done => Len(Opens) >= 2
       /\ Done /\ outcome.kind = "raise" => outcome.err # Decodes[1].err

\* a malformed-JSON failure was retried with 'purge' and the retry succeeded
C13_Witness ==
  /\ Done
  /\ MalformedJson
  /\ Len(Opens) = 2
  /\ outcome.kind = "return"

\* C14 (handles are decoded once): when the location is a caller's handle with
\* a registered tag, load calls the decoder once, on that handle, makes no
\* retrieval, and returns the decoder's value or raises the very error the
\* decoder raised, whatever its kind.
C14_HandleDecodedOnce ==
  (is_handle(url_or_handle) /\ Registered(url_or_handle))
  => /\ Len(Opens) = 0
     /\ Len(Decodes) <= 1
     /\ \A i \in DOMAIN Decodes :
          /\ Decodes[i].handle = url_or_handle
          /\ Decodes[i].loader = loaders[Lower(SplitExt(url_or_handle.name))]
     /\ Done =>
          /\ Len(Decodes) = 1
          /\ outcome = IF Decodes[1].raised
                       THEN Raise(Decodes[1].err)
                       ELSE Return(Decodes[1].value)

\* the call has a string location with a registered tag, and no error raised
\* so far is a KeyError (which load's own handler would take for a registry
\* miss)
NoKeyError ==
  /\ IsString(url_or_handle)
  /\ Registered(url_or_handle)
  /\ \A i \in DOMAIN trace :
       trace[i].ev \in {"open", "decode"} => ~IsInstance(trace[i].err, "KeyError")

\* C15 (two attempts at most): a load call of a string location with a
\* registered tag makes at most two retrievals and at most two decoder calls,
\* whatever streams the bridge yields (a stream with read but no name among
\* them) and however often the decoder raises a DecodeError or ValueError.
C15_AtMostTwoAttempts ==
  NoKeyError => Len(Opens) <= 2 /\ Len(Decodes) <= 2

\* the bridge streams the call holds: yielded and not yet released
Held ==
  {Opens[i].stream : i \in {j \in DOMAIN Opens : ~Opens[j].raised}}
    \ {Closes[k].stream : k \in DOMAIN Closes}

\* C18 (one stream at a time): at no point of a load call are two bridge
\* streams open at once; a retrieval is issued only when every stream yielded
\* before it has been released.
C18_OneStreamAtATime == Cardinality(Held) <= 1

\* the bridge itself raised while opening the first attempt's stream of a
\* string location with a registered tag: no decoder had been called
BridgeRaisedFirst ==
  /\ IsString(url_or_handle)
  /\ Registered(url_or_handle)
  /\ Len(Opens) >= 1
  /\ Opens[1].raised
  /\ \A i \in DOMAIN trace : trace[i].ev = "decode" => \E j \in 1..(i - 1) : trace[j].ev = "open"

\* C19 (bridge errors): when the bridge raises while opening the first
\* attempt's stream, a DecodeError or ValueError leads to one retry, a
\* retrieval with 'purge', as a decoder failure does; an error of any other
\* kind ends the call with that error, with no further retrieval and no
\* decoder call.
C19_BridgeErrorRetried ==
  BridgeRaisedFirst =>
    IF Retryable(Opens[1].err)
    THEN /\ Len(Opens) >= 2 => 2 \in {k \in DOMAIN Opens : Opens[k].cache = "purge"}
         /\ Cardinality(Retries) <= 1
         /\ Done => Len(Opens) >= 2
    ELSE /\ Len(Opens) = 1
         /\ Len(Decodes) = 0
         /\ Done => outcome = Raise(Opens[1].err)

Logs == Events("log")

\* the log record a handler's warning leaves for location u
PurgeWarning(u) == LogEvent("warning", PercentFormat(PurgeMessage, <<Obj(u)>>))

\* the retrievals issued with 'purge' in a call whose caller did not ask for it
HandlerPurges ==
  IF cache = "purge" THEN {} ELSE {i \in DOMAIN trace : trace[i].ev = "open" /\ trace[i].cache = "purge"}

\* every 'purge' retrieval of a handler comes right after a warning that names
\* the location retrieved
WarningBeforePurge ==
  \A i \in HandlerPurges :
    /\ i > 1
    /\ trace[i - 1] = PurgeWarning(trace[i].url)
    /\ Mentions(trace[i - 1].msg, trace[i].url)

\* C16 as stated (logging order): a warning naming the location is logged
\* before a purge retrieval, and whenever load of a string location raises, an
\* error-level record naming the location has been logged before.
C16_ErrorLoggedBeforeRaise ==
  /\ WarningBeforePurge
  /\ (IsString(url_or_handle) /\ Done /\ outcome.kind = "raise")
       => \E k \in DOMAIN Logs :
            Logs[k].level = "error" /\ Mentions(Logs[k].msg, url_or_handle)

\* load raised the RuntimeError of its failed image fallback
FailedFallback == Done /\ outcome = Raise(ImageFailError)

\* C16 amended (logging order): a warning naming the location retrieved is
\* logged right before every purge retrieval; an error-level record is logged
\* on the failed fallback only, right before load raises its RuntimeError, and
\* it names the location and lists every registered tag; on every other path
\* that raises, load logs no error; and every error that load catches rather
\* than raises is followed by a warning or an error record.
C16_WarningBeforePurgeErrorOnFallback ==
  /\ WarningBeforePurge
  /\ FailedFallback
       => /\ trace # <<>>
          /\ trace[Len(trace)].ev = "log"
          /\ trace[Len(trace)].level = "error"
          /\ Mentions(trace[Len(trace)].msg, url_or_handle)
          /\ \A k \in DOMAIN LoaderKeys : ListsTag(trace[Len(trace)].msg, LoaderKeys[k])
  /\ \A i \in DOMAIN trace :
       (trace[i].ev = "log" /\ trace[i].level = "error") => (i = Len(trace) /\ FailedFallback)
  /\ Done
       => \A i \in DOMAIN trace :
            (trace[i].ev \in {"open", "decode"} /\ trace[i].raised /\ outcome # Raise(trace[i].err))
            => \E j \in (i + 1)..Len(trace) :
                 trace[j].ev = "log" /\ trace[j].level \in {"warning", "error"}

\* a call that logged the handler's warning, purged, and then failed in the
\* image fallback
C16_Witness ==
  /\ FailedFallback
  /\ HandlerPurges # {}
  /\ \E k \in DOMAIN Logs : Logs[k] = PurgeWarning(url_or_handle)

\* C12 (image rank): _load_img returns a rank-3 array unchanged; it returns a
\* rank-2 array of shape (H, W) as an array of shape (H, W, 3) whose three
\* channel values at each pixel all equal the pixel's value; for every other
\* rank it raises NotImplementedError.
C12_RankHandling ==
  image.kind # "none" =>
    LET rank == Len(ndimage.shape)
    IN  /\ rank = 3 => image = ReturnImage(ndimage)
        /\ rank = 2 =>
             /\ image.kind = "return"
             /\ image.value.shape = <<ndimage.shape[1], ndimage.shape[2], 3>>
             /\ DOMAIN image.value.data = Indices(image.value.shape)
             /\ \A i \in 0..(ndimage.shape[1] - 1), j \in 0..(ndimage.shape[2] - 1), c \in 0..2 :
                  image.value.data[<<i, j, c>>] = ndimage.data[<<i, j>>]
        /\ rank \notin {2, 3} =>
             /\ image.kind = "raise"
             /\ image.err.type = "NotImplementedError"

\* a 2 x 2 grayscale image with two different pixel values was promoted
C12_Witness ==
  /\ image.kind = "return"
  /\ ndimage.shape = <<2, 2>>
  /\ \E s, t \in Indices(ndimage.shape) : ndimage.data[s] # ndimage.data[t]

OtherOpens == SelectSeq(other.trace, LAMBDA e : e.ev = "open")

OtherDecodes == SelectSeq(other.trace, LAMBDA e : e.ev = "decode")

\* in both calls the bridge yielded a stream on the first retrieval and the
\* decoder returned the same value on it: the same bytes, decoded the same way
SameBytesSameValue ==
  /\ other # NoCall
  /\ other.url_or_handle = url_or_handle
  /\ other.cache = UseExisting /\ cache = UseExisting
  /\ Len(OtherOpens) >= 1 /\ ~OtherOpens[1].raised
  /\ Len(OtherDecodes) >= 1 /\ ~OtherDecodes[1].raised
  /\ Len(Opens) >= 1 /\ ~Opens[1].raised
  /\ Len(Decodes) >= 1 /\ ~Decodes[1].raised
  /\ Decodes[1].value = OtherDecodes[1].value

\* C11 (idempotence): when a string location is loaded twice in sequence with
\* use-existing, the bridge yielding the same bytes and the decoder the same
\* value for them, both calls return that value, and neither call issues a
\* retrieval with 'purge'.
C11_Idempotent ==
  (SameBytesSameValue /\ Done)
  => /\ outcome.kind = "return"
     /\ outcome = other.outcome
     /\ outcome.value = Decodes[1].value
     /\ \A i \in DOMAIN Opens : Opens[i].cache # "purge"
     /\ \A i \in DOMAIN OtherOpens : OtherOpens[i].cache # "purge"

\* the second load of a location returned what the first returned
C11_Witness ==
  /\ SameBytesSameValue
  /\ Done
  /\ Registered(url_or_handle)
  /\ outcome = other.outcome

\* what a call returned is a value its own decoder call returned, and an
\* error it raised from a collaborator is the one its own trace records
OutcomeFromOwnTrace(tr, o) ==
  /\ o.kind = "return"
       => \E i \in DOMAIN tr : tr[i].ev = "decode" /\ ~tr[i].raised /\ tr[i].value = o.value
  /\ (o.kind = "raise" /\ o.err.at # 0)
       => (o.err.at \in DOMAIN tr /\ tr[o.err.at].err = o.err)

\* C17 (independent calls): while two load calls on different string
\* locations run interleaved, every retrieval either call makes, its purge
\* included, names that call's own location, and each call's outcome comes
\* from its own retrievals and decoder calls.
C17_OwnLocationOnly ==
  other # NoCall
  => /\ \A i \in DOMAIN Opens : Opens[i].url = url_or_handle
     /\ \A i \in DOMAIN OtherOpens : OtherOpens[i].url = other.url_or_handle
     /\ OutcomeFromOwnTrace(trace, outcome)
     /\ OutcomeFromOwnTrace(other.trace, other.outcome)

====
